---- MODULE Spec2Model ----
(***************************************************************************)
(* Model of the Cloudflare Pages Function /api/weather                     *)
(* (src/functions/api/weather.js): the GET handler, its two upstream       *)
(* fetches joined by Promise.allSettled, and the read-append-trim-write    *)
(* cycle of updateTrendHistory against the shared KV store.                *)
(*                                                                         *)
(* Units.  Times are epoch milliseconds.  A parsed reading is kept in      *)
(* hundredths (parseFloat("29.92") is 2992).  inHgToHPa then yields        *)
(* 10^-6 hPa and fToC yields 1/900 degC, so that both conversions are      *)
(* exact integer arithmetic (IEEE rounding is not modelled).               *)
(***************************************************************************)
EXTENDS Integers, Sequences, FiniteSets, TLC

\* ------------------------------------------------------------------ bounds
\* Number of GET requests started in one behaviour.
MaxRequests == 2
\* Number of clock advances in one behaviour.
MaxTicks == 2

\* --------------------------------------------------------------- constants
MAX_HISTORY_HOURS == 48

KV_HISTORY_KEY == "trend_history"

CORS_HEADERS ==
  [allowOrigin |-> "*", allowMethods |-> "GET, OPTIONS", contentType |-> "application/json"]

\* MAX_HISTORY_HOURS * 3600 * 1000, the width of the rolling window in ms.
WindowMs == MAX_HISTORY_HOURS * 3600 * 1000

\* The expirationTtl (seconds) every kv.put carries.  The expiry itself is
\* not a step of the model: an entry that has expired is the initial entry
\* NoEntry.
ExpirationTtl == 49 * 3600

\* The clock value of the initial state (any epoch far enough from 0).
Clock0 == 2 * WindowMs

\* The steps by which the clock advances: one millisecond, or one
\* millisecond less than the window (so that both sides of the cutoff
\* boundary are reached).
ClockSteps == {1, WindowMs - 1}

\* ------------------------------------------------------- parseEcowittValue
Digits == {"0", "1", "2", "3", "4", "5", "6", "7", "8", "9"}

DigitVal(c) ==
  CASE c = "0" -> 0 [] c = "1" -> 1 [] c = "2" -> 2 [] c = "3" -> 3 [] c = "4" -> 4
    [] c = "5" -> 5 [] c = "6" -> 6 [] c = "7" -> 7 [] c = "8" -> 8 [] c = "9" -> 9

RECURSIVE TakeDigits(_)
TakeDigits(s) ==
  IF s # <<>> /\ Head(s) \in Digits THEN <<Head(s)>> \o TakeDigits(Tail(s)) ELSE <<>>

RECURSIVE DigitsValue(_)
DigitsValue(d) ==
  IF d = <<>> THEN 0
  ELSE DigitsValue(SubSeq(d, 1, Len(d) - 1)) * 10 + DigitVal(d[Len(d)])

RECURSIVE SkipSpace(_)
SkipSpace(s) == IF s # <<>> /\ Head(s) = " " THEN SkipSpace(Tail(s)) ELSE s

Drop(s, n) == SubSeq(s, n + 1, Len(s))

NaN == [nan |-> TRUE, n |-> 0]

\* parseFloat on a string given as a sequence of characters: leading blanks,
\* an optional sign, the longest prefix digits[.digits]; NaN when that prefix
\* has no digit.  The result is in hundredths; the inputs drawn carry at
\* most two fraction digits, no exponent, and are not "Infinity".
ParseFloat(s) ==
  LET t == SkipSpace(s)
      signed == t # <<>> /\ Head(t) \in {"+", "-"}
      sign == IF t # <<>> /\ Head(t) = "-" THEN -1 ELSE 1
      u == IF signed THEN Tail(t) ELSE t
      ip == TakeDigits(u)
      v == Drop(u, Len(ip))
      fp == IF v # <<>> /\ Head(v) = "." THEN TakeDigits(Tail(v)) ELSE <<>>
      f2 == SubSeq(fp \o <<"0", "0">>, 1, 2)
  IN IF ip = <<>> /\ fp = <<>> THEN NaN
     ELSE [nan |-> FALSE, n |-> sign * (DigitsValue(ip) * 100 + DigitsValue(f2))]

\* An Ecowitt value object as the handler sees it: absent (null or
\* undefined), present without a usable value field (undefined or null), or
\* present with a string value.
NoNode == [node |-> FALSE, has |-> FALSE, value |-> <<>>]
NodeNoValue == [node |-> TRUE, has |-> FALSE, value |-> <<>>]
Node(v) == [node |-> TRUE, has |-> TRUE, value |-> v]

Null == [null |-> TRUE, n |-> 0]
Num(n) == [null |-> FALSE, n |-> n]

parseEcowittValue(obj) ==
  IF ~obj.node \/ ~obj.has \/ obj.value = <<>> THEN Null
  ELSE LET n == ParseFloat(obj.value)
       IN IF n.nan THEN Null ELSE Num(n.n)

\* ---------------------------------------------------------- unit conversion
\* (f - 32) * 5 / 9 with f in hundredths of a degF: the result in 1/900 degC.
fToC(f) == (f - 3200) * 5

\* inHg * 33.8639 with inHg in hundredths: the result in 10^-6 hPa.
inHgToHPa(inHg) == inHg * 338639

\* ------------------------------------------------------------ the KV store
\* A Sample in memory is the record [time, value]; in the stored JSON text
\* it is the pair <<time, value>>.  A field of the stored object is an array
\* of samples, or missing, or another JSON value that is falsy (0, "", null,
\* false) or truthy (a number, a non-empty string, an object, true).
Sample(t, v) == [time |-> t, value |-> v]

ArrayField(items) == [kind |-> "array", items |-> items]
MissingField == [kind |-> "missing", items |-> <<>>]
FalsyField == [kind |-> "falsy", items |-> <<>>]
TruthyField == [kind |-> "truthy", items |-> <<>>]

\* What the store holds under KV_HISTORY_KEY: nothing, a text that is not
\* JSON, the JSON text null, or the JSON text of an object.
NoEntry == [shape |-> "absent", pressure |-> MissingField, temperature |-> MissingField]
MalformedEntry == [shape |-> "malformed", pressure |-> MissingField, temperature |-> MissingField]
NullEntry == [shape |-> "null", pressure |-> MissingField, temperature |-> MissingField]
ObjectEntry(p, t) == [shape |-> "object", pressure |-> p, temperature |-> t]

\* JSON.stringify and JSON.parse on one field of a History.
StringifyField(f) ==
  [kind |-> f.kind, items |-> [i \in 1..Len(f.items) |-> <<f.items[i].time, f.items[i].value>>]]

ParseField(f) ==
  [kind |-> f.kind, items |-> [i \in 1..Len(f.items) |-> Sample(f.items[i][1], f.items[i][2])]]

\* JSON.stringify(history), the text handed to kv.put.
JSONStringify(history) ==
  ObjectEntry(StringifyField(history.pressure), StringifyField(history.temperature))

\* The value in memory: null, or the parsed object.
NullValue == [isNull |-> TRUE, pressure |-> MissingField, temperature |-> MissingField]
History(p, t) == [isNull |-> FALSE, pressure |-> p, temperature |-> t]
EmptyHistory == History(ArrayField(<<>>), ArrayField(<<>>))

\* kv.get(KV_HISTORY_KEY, {type: 'json'}): rejects when the store cannot be
\* reached or the text is not JSON, resolves to null when there is no entry.
KvGet(entry, reachable) ==
  IF ~reachable \/ entry.shape = "malformed" THEN [ok |-> FALSE, value |-> NullValue]
  ELSE IF entry.shape \in {"absent", "null"} THEN [ok |-> TRUE, value |-> NullValue]
  ELSE [ok |-> TRUE, value |-> History(ParseField(entry.pressure), ParseField(entry.temperature))]

\* ------------------------------------------------------ updateTrendHistory
Truthy(f) == f.kind \in {"array", "truthy"}

\* The stored value never taken over: every call starts from the empty
\* History.
ReadHistory_AlwaysEmpty(got) == EmptyHistory

\* Lines 120-128: the stored value is used when it and both of its fields
\* are truthy; a rejected read and every other value give the empty History.
ReadHistory(got) ==
  IF got.ok /\ ~got.value.isNull /\ Truthy(got.value.pressure) /\ Truthy(got.value.temperature)
  THEN got.value
  ELSE EmptyHistory

\* The predicate with >= in place of >.
InWindow_Inclusive(time, cutoff) == time >= cutoff

\* Lines 145-146: the predicate p => p.time > cutoff.
InWindow(time, cutoff) == time > cutoff

\* Array.prototype.filter with that predicate.
RECURSIVE Filter(_, _)
Filter(items, cutoff) ==
  IF items = <<>> THEN <<>>
  ELSE IF InWindow(Head(items).time, cutoff) THEN <<Head(items)>> \o Filter(Tail(items), cutoff)
  ELSE Filter(Tail(items), cutoff)

\* unshift in place of push: the new sample put in front.
Push_Prepend(f, raw, t, v) ==
  IF raw.null THEN f ELSE ArrayField(<<Sample(t, v)>> \o f.items)

\* Lines 137-142 for one metric: push when the parsed reading is not null.
Push(f, raw, t, v) == IF raw.null THEN f ELSE ArrayField(Append(f.items, Sample(t, v)))

\* The update without the trim of lines 145-146.
Trim_KeepAll(f, cutoff) == f

Trim(f, cutoff) == ArrayField(Filter(f.items, cutoff))

\* Lines 130-146.  push and filter are methods of arrays only: on a field
\* that is truthy and no array the call throws a TypeError.
UpdateThrows(history) == history.pressure.kind # "array" \/ history.temperature.kind # "array"

\* Lines 119-146: the History to write and return (and the History as it
\* was after the pushes, before the trim), from the settled read, the data of
\* the current reading and the clock.
updateTrendHistory(got, realtimeData, t) ==
  LET history == ReadHistory(got)
      cutoff == t - MAX_HISTORY_HOURS * 3600 * 1000
      rawPressure == parseEcowittValue(realtimeData.pressure_relative)
      rawTemp == parseEcowittValue(realtimeData.outdoor_temperature)
      pushedPressure == Push(history.pressure, rawPressure, t, inHgToHPa(rawPressure.n))
      pushedTemp == Push(history.temperature, rawTemp, t, fToC(rawTemp.n))
  IN IF UpdateThrows(history)
     THEN [threw |-> TRUE, pushed |-> EmptyHistory, history |-> EmptyHistory]
     ELSE [threw |-> FALSE,
           pushed |-> History(pushedPressure, pushedTemp),
           history |-> History(Trim(pushedPressure, cutoff), Trim(pushedTemp, cutoff))]

\* ------------------------------------------------------------- environment
\* An environment variable is unset, the empty string, or a non-empty string.
EnvValues == {"unset", "empty", "set"}

\* !env.X of line 28.
Not(x) == x \in {"unset", "empty"}

Envs ==
  [ECOWITT_API_KEY : EnvValues, ECOWITT_APPLICATION_KEY : EnvValues,
   ECOWITT_DEVICE_MAC : EnvValues, WEATHER_KV : BOOLEAN]

\* ---------------------------------------------------------------- upstream
\* The data of a current reading: the two value objects the handler reads,
\* realtimeData?.pressure?.relative and realtimeData?.outdoor?.temperature
\* (NoNode when data or the object on the way is missing).
Reading(p, t) == [pressure_relative |-> p, outdoor_temperature |-> t]

ReadingFull == Reading(Node(<<"2", "9", ".", "9", "2">>), Node(<<"3", "2">>))
ReadingNoTemp == Reading(Node(<<"3", "0">>), Node(<<>>))
ReadingNone == Reading(NoNode, NodeNoValue)
ReadingZero == Reading(Node(<<"0">>), Node(<<"n", "/", "a">>))

Readings == {ReadingFull, ReadingNoTemp, ReadingNone}

\* Readings for every case of parseEcowittValue: a legitimate "0", text that
\* is no number, text that starts with a number, a negative value.
ReadingPrefix == Reading(Node(<<"3", "0", ".", "1", "i", "n">>), Node(<<"-", "4", ".", "5">>))

ParserReadings == Readings \cup {ReadingZero, ReadingPrefix}

\* What the upstream answers to one fetch: no answer (network error), an
\* HTTP status with a body that is no JSON, the JSON text null, or a JSON
\* object with a code (0 when hasCode is FALSE), a msg and a data field.
Answer(net, status, json, hasCode, code, msg, data) ==
  [net |-> net, status |-> status, json |-> json, hasCode |-> hasCode,
   code |-> code, msg |-> msg, data |-> data]

RealtimeAnswers ==
  {Answer(FALSE, 0, "none", FALSE, 0, "", ReadingNone),
   Answer(TRUE, 503, "none", FALSE, 0, "", ReadingNone),
   Answer(TRUE, 200, "none", FALSE, 0, "", ReadingNone),
   Answer(TRUE, 200, "null", FALSE, 0, "", ReadingNone),
   Answer(TRUE, 200, "object", FALSE, 0, "", ReadingNone),
   Answer(TRUE, 200, "object", TRUE, 40010, "Illegal parameter", ReadingNone)}
  \cup {Answer(TRUE, 200, "object", TRUE, 0, "success", d) : d \in Readings}

HistoryAnswers ==
  {Answer(FALSE, 0, "none", FALSE, 0, "", "none"),
   Answer(TRUE, 503, "none", FALSE, 0, "", "none"),
   Answer(TRUE, 200, "null", FALSE, 0, "", "none"),
   Answer(TRUE, 200, "object", TRUE, 40010, "Illegal parameter", "none"),
   Answer(TRUE, 200, "object", TRUE, 0, "success", "history24h")}

\* The answers drawn when two invocations overlap: both fetches succeed, so
\* that every invocation reaches updateTrendHistory.
OverlapRealtimeAnswers == {Answer(TRUE, 200, "object", TRUE, 0, "success", ReadingFull)}

OverlapHistoryAnswers == {Answer(TRUE, 200, "object", TRUE, 0, "success", "history24h")}

\* The answers drawn when the parser is exercised: a successful current
\* reading with each of the ParserReadings.
ParserRealtimeAnswers == {Answer(TRUE, 200, "object", TRUE, 0, "success", d) : d \in ParserReadings}

\* An Error: its name and its message.
Error(name, message) == [name |-> name, message |-> message]
NoError == Error("", "")

\* A promise: pending, fulfilled with a value or rejected with a reason.
Pending(a) == [status |-> "pending", reason |-> NoError, value |-> a]
Fulfilled(a) == [status |-> "fulfilled", reason |-> NoError, value |-> a]
Rejected(why, a) == [status |-> "rejected", reason |-> why, value |-> a]

\* The status line of the message of line 109 (the statuses the upstream is
\* drawn with).
HttpMessage(status) == IF status = 503 THEN "HTTP 503" ELSE "HTTP status"

\* Lines 106-112: fetch rejects on a network error, fetchEcowitt throws on a
\* response that is not ok, response.json() rejects on a body that is no JSON.
fetchEcowitt(a) ==
  IF ~a.net THEN Rejected(Error("TypeError", "fetch failed"), a)
  ELSE IF a.status \notin 200..299 THEN Rejected(Error("Error", HttpMessage(a.status)), a)
  ELSE IF a.json = "none" THEN Rejected(Error("SyntaxError", "Unexpected token"), a)
  ELSE Fulfilled(a)

\* ---------------------------------------------------------------- responses
NoBody ==
  [error |-> "", realtime |-> ReadingNone, history |-> "null",
   history_error |-> "null", trends |-> EmptyHistory]

\* A Response built with the content type alone.
jsonResponse_ContentTypeOnly(data, status) ==
  [status |-> status,
   headers |-> [allowOrigin |-> "", allowMethods |-> "", contentType |-> "application/json"],
   body |-> data]

\* Lines 172-174.
jsonResponse(data, status) == [status |-> status, headers |-> CORS_HEADERS, body |-> data]

NoResponse == [status |-> 0, headers |-> CORS_HEADERS, body |-> NoBody]

\* Lines 79-81: new Response(null, {status: 204, headers: CORS_HEADERS}); the
\* null body is NoBody.
onRequestOptions == [status |-> 204, headers |-> CORS_HEADERS, body |-> NoBody]

\* ------------------------------------------------------ lines 42-62, 70-75
\* realtimeData.code !== 0, on a body that is an object.
CodeIsZero(body) == body.hasCode /\ body.code = 0

\* historyData taken from every fulfilled fetch, whatever its code.
HistoryData_IgnoresCode(historyResult) ==
  IF historyResult.status = "fulfilled" /\ historyResult.value.json = "object"
  THEN historyResult.value.data
  ELSE "null"

\* Lines 52-62: historyData.
HistoryData(historyResult) ==
  IF historyResult.status = "fulfilled" /\ historyResult.value.json = "object"
     /\ CodeIsZero(historyResult.value)
  THEN historyResult.value.data
  ELSE "null"

\* Lines 52-62: historyError.
HistoryError(historyResult) ==
  IF historyResult.status = "fulfilled"
  THEN IF historyResult.value.json = "object" /\ CodeIsZero(historyResult.value) THEN "null"
       ELSE IF historyResult.value.json = "object" /\ historyResult.value.hasCode
            THEN "code and msg" ELSE "{}"
  ELSE "msg: " \o (IF historyResult.reason.message # "" THEN historyResult.reason.message
                   ELSE "fetch failed")

\* trends filled in only when the history data is there.
OkBody_TrendsNeedHistory(realtimeResult, historyResult, trendHistory) ==
  [error |-> "", realtime |-> realtimeResult.value.data,
   history |-> HistoryData(historyResult),
   history_error |-> HistoryError(historyResult),
   trends |-> IF HistoryData(historyResult) = "null" THEN EmptyHistory ELSE trendHistory]

\* Lines 70-75.
OkBody(realtimeResult, historyResult, trendHistory) ==
  [error |-> "", realtime |-> realtimeResult.value.data,
   history |-> HistoryData(historyResult),
   history_error |-> HistoryError(historyResult), trends |-> trendHistory]

ErrorBody(msg) == [NoBody EXCEPT !.error = msg]

\* The check of line 42 without the check of line 47.
RealtimeFailure_RejectedOnly(realtimeResult) ==
  IF realtimeResult.status = "rejected"
  THEN "Failed to reach Ecowitt API: " \o realtimeResult.reason.name \o ": "
         \o realtimeResult.reason.message
  ELSE ""

\* Lines 42-49: the 502 of a failed current reading, when there is one.
RealtimeFailure(realtimeResult) ==
  IF realtimeResult.status = "rejected"
  THEN "Failed to reach Ecowitt API: " \o realtimeResult.reason.name \o ": "
         \o realtimeResult.reason.message
  ELSE IF CodeIsZero(realtimeResult.value) THEN ""
  ELSE IF realtimeResult.value.msg # "" THEN realtimeResult.value.msg
  ELSE "Ecowitt API returned an error."

\* Line 47 reads realtimeData.code: a TypeError when the body is JSON null.
JoinThrows(realtimeResult) ==
  realtimeResult.status = "fulfilled" /\ realtimeResult.value.json = "null"

\* ------------------------------------------------------------------- state
\* The invocations of onRequestGet that may be in flight together.
Requests == {1, 2}

VARIABLES
  env,             \* the bindings of the deployment
  clock,           \* Date.now()
  ticks,           \* clock advances so far
  started,         \* requests started so far
  kv,              \* the entry of the store under KV_HISTORY_KEY
  kvTtl,           \* the expirationTtl of the last write (0: none)
  pc,              \* where each invocation stands
  realtimeResult,  \* the promise of the real_time fetch
  historyResult,   \* the promise of the history fetch
  now,             \* now of updateTrendHistory
  history,         \* history of updateTrendHistory, after the trim
  pushed,          \* history of updateTrendHistory, before the trim
  response,        \* the Response the invocation returned
  calls,           \* per invocation: fetches issued, kv.get and kv.put calls
  io,              \* per invocation: how kv.get and kv.put settled
  putArg,          \* per invocation: the text handed to kv.put
  kvSeen           \* per invocation: the entry of the store when it started,
                   \* then the entry when its kv.get settled

vars ==
  <<env, clock, ticks, started, kv, kvTtl, pc, realtimeResult, historyResult, now,
    history, pushed, response, calls, io, putArg, kvSeen>>

NoCalls == [realtime |-> 0, history |-> 0, get |-> 0, put |-> 0]
NoIo == [get |-> "none", put |-> "none"]

NoRealtime == Pending(Answer(FALSE, 0, "none", FALSE, 0, "", ReadingNone))
NoHistory == Pending(Answer(FALSE, 0, "none", FALSE, 0, "", "none"))

\* Stored entries the first request may find: none, corrupt or partly shaped
\* ones, and a History with a pressure sample exactly on the cutoff of a
\* call at Clock0 and samples one millisecond inside the window.
InitSamplesP ==
  <<<<Clock0 - WindowMs, inHgToHPa(3000)>>, <<Clock0 - WindowMs + 1, inHgToHPa(3001)>>>>
InitSamplesT == <<<<Clock0 - WindowMs + 1, fToC(5000)>>>>

InitEntries ==
  {NoEntry, MalformedEntry, NullEntry,
   ObjectEntry(ArrayField(<<>>), MissingField),
   ObjectEntry(FalsyField, ArrayField(<<>>)),
   ObjectEntry(ArrayField(InitSamplesP), TruthyField),
   ObjectEntry(ArrayField(InitSamplesP), ArrayField(InitSamplesT))}

Init ==
  /\ env \in Envs
  /\ clock = Clock0
  /\ ticks = 0
  /\ started = 0
  /\ kv \in InitEntries
  /\ kvTtl = 0
  /\ pc = [r \in Requests |-> "idle"]
  /\ realtimeResult = [r \in Requests |-> NoRealtime]
  /\ historyResult = [r \in Requests |-> NoHistory]
  /\ now = [r \in Requests |-> 0]
  /\ history = [r \in Requests |-> EmptyHistory]
  /\ pushed = [r \in Requests |-> EmptyHistory]
  /\ response = [r \in Requests |-> NoResponse]
  /\ calls = [r \in Requests |-> NoCalls]
  /\ io = [r \in Requests |-> NoIo]
  /\ putArg = [r \in Requests |-> NoEntry]
  /\ kvSeen = [r \in Requests |-> kv]

\* ----------------------------------------------------------------- actions
Settled(p) == p.status # "pending"

Free(r) == pc[r] \in {"idle", "done", "threw", "preflight"}

\* The update called without the check of line 66.
KvConfigured_Always(e) == TRUE

\* Line 66: if (env.WEATHER_KV).
KvConfigured(e) == e.WEATHER_KV

\* kv.put outside the try block: a rejected write leaves the handler.
PutOutcome_Rethrow(ok) == IF ok THEN "done" ELSE "threw"

\* kv.put in a loop that repeats a rejected write.
PutOutcome_Retry(ok) == IF ok THEN "done" ELSE "writing"

\* Lines 149-155: a rejected kv.put is caught, the call returns either way.
PutOutcome(ok) == "done"

\* kv.put(KV_HISTORY_KEY, text, {expirationTtl}): the entry and its TTL
\* afterwards; a write the store did not take leaves both as they were.
KvPut(entry, ttl, text, ok) ==
  IF ok THEN [entry |-> text, ttl |-> ExpirationTtl] ELSE [entry |-> entry, ttl |-> ttl]

\* A check for undefined alone, which lets the empty string pass.
MissingCredentials_UnsetOnly(e) ==
  \/ e.ECOWITT_API_KEY = "unset"
  \/ e.ECOWITT_APPLICATION_KEY = "unset"
  \/ e.ECOWITT_DEVICE_MAC = "unset"

\* Lines 28-30.
MissingCredentials(e) ==
  Not(e.ECOWITT_API_KEY) \/ Not(e.ECOWITT_APPLICATION_KEY) \/ Not(e.ECOWITT_DEVICE_MAC)

\* Lines 26-40: a GET arrives.  Without the credentials the handler returns
\* 500; with them it calls fetchEcowitt twice and awaits Promise.allSettled.
\* The invocation takes the lowest slot that holds no running invocation
\* (the slots are interchangeable), replacing what a finished one left there.
StartGet(r) ==
  /\ Free(r)
  /\ \A q \in Requests : q < r => ~Free(q)
  /\ started < MaxRequests
  /\ started' = started + 1
  /\ realtimeResult' = [realtimeResult EXCEPT ![r] = NoRealtime]
  /\ historyResult' = [historyResult EXCEPT ![r] = NoHistory]
  /\ now' = [now EXCEPT ![r] = 0]
  /\ history' = [history EXCEPT ![r] = EmptyHistory]
  /\ pushed' = [pushed EXCEPT ![r] = EmptyHistory]
  /\ io' = [io EXCEPT ![r] = NoIo]
  /\ putArg' = [putArg EXCEPT ![r] = NoEntry]
  /\ IF MissingCredentials(env)
     THEN /\ pc' = [pc EXCEPT ![r] = "done"]
          /\ response' = [response EXCEPT ![r] = jsonResponse(
               ErrorBody("Server misconfiguration: missing environment variables."), 500)]
          /\ calls' = [calls EXCEPT ![r] = NoCalls]
     ELSE /\ pc' = [pc EXCEPT ![r] = "fetching"]
          /\ response' = [response EXCEPT ![r] = NoResponse]
          /\ calls' = [calls EXCEPT ![r] = [NoCalls EXCEPT !.realtime = 1, !.history = 1]]
  /\ kvSeen' = [kvSeen EXCEPT ![r] = kv]
  /\ UNCHANGED <<env, clock, ticks, kv, kvTtl>>

\* Lines 78-81: an OPTIONS request arrives and is answered at once.
StartOptions(r) ==
  /\ Free(r)
  /\ \A q \in Requests : q < r => ~Free(q)
  /\ started < MaxRequests
  /\ started' = started + 1
  /\ pc' = [pc EXCEPT ![r] = "preflight"]
  /\ response' = [response EXCEPT ![r] = onRequestOptions]
  /\ realtimeResult' = [realtimeResult EXCEPT ![r] = NoRealtime]
  /\ historyResult' = [historyResult EXCEPT ![r] = NoHistory]
  /\ now' = [now EXCEPT ![r] = 0]
  /\ history' = [history EXCEPT ![r] = EmptyHistory]
  /\ pushed' = [pushed EXCEPT ![r] = EmptyHistory]
  /\ calls' = [calls EXCEPT ![r] = NoCalls]
  /\ io' = [io EXCEPT ![r] = NoIo]
  /\ putArg' = [putArg EXCEPT ![r] = NoEntry]
  /\ kvSeen' = [kvSeen EXCEPT ![r] = kv]
  /\ UNCHANGED <<env, clock, ticks, kv, kvTtl>>

\* Lines 38, 106-112: the real_time fetch settles.
SettleRealtime(r, a) ==
  /\ pc[r] = "fetching"
  /\ ~Settled(realtimeResult[r])
  /\ realtimeResult' = [realtimeResult EXCEPT ![r] = fetchEcowitt(a)]
  /\ UNCHANGED <<env, clock, ticks, started, kv, kvTtl, pc, historyResult, now, history,
                 pushed, response, calls, io, putArg, kvSeen>>

\* Lines 39, 106-112: the history fetch settles.
SettleHistory(r, a) ==
  /\ pc[r] = "fetching"
  /\ ~Settled(historyResult[r])
  /\ historyResult' = [historyResult EXCEPT ![r] = fetchEcowitt(a)]
  /\ UNCHANGED <<env, clock, ticks, started, kv, kvTtl, pc, realtimeResult, now, history,
                 pushed, response, calls, io, putArg, kvSeen>>

\* Promise.all in place of Promise.allSettled: the first rejection ends the
\* wait.
AllSettled_FailFast(r) ==
  \/ realtimeResult[r].status = "rejected"
  \/ historyResult[r].status = "rejected"
  \/ (Settled(realtimeResult[r]) /\ Settled(historyResult[r]))

\* Line 37: Promise.allSettled resolves once every promise has settled.
AllSettled(r) == Settled(realtimeResult[r]) /\ Settled(historyResult[r])

\* Lines 37-68: the handler resumes after the join: 502 for a failed current
\* reading, else 200 at once without the KV binding, else kv.get is called.
Join(r) ==
  /\ pc[r] = "fetching"
  /\ AllSettled(r)
  /\ IF JoinThrows(realtimeResult[r])
     THEN /\ pc' = [pc EXCEPT ![r] = "threw"]
          /\ UNCHANGED <<response, calls>>
     ELSE IF RealtimeFailure(realtimeResult[r]) # ""
     THEN /\ pc' = [pc EXCEPT ![r] = "done"]
          /\ response' = [response EXCEPT ![r] =
               jsonResponse(ErrorBody(RealtimeFailure(realtimeResult[r])), 502)]
          /\ UNCHANGED calls
     ELSE IF ~KvConfigured(env)
     THEN /\ pc' = [pc EXCEPT ![r] = "done"]
          /\ response' = [response EXCEPT ![r] =
               jsonResponse(OkBody(realtimeResult[r], historyResult[r], EmptyHistory), 200)]
          /\ UNCHANGED calls
     ELSE /\ pc' = [pc EXCEPT ![r] = "reading"]
          /\ calls' = [calls EXCEPT ![r].get = @ + 1]
          /\ UNCHANGED response
  /\ UNCHANGED <<env, clock, ticks, started, kv, kvTtl, realtimeResult, historyResult, now,
                 history, pushed, io, putArg, kvSeen>>

\* Lines 119-150: kv.get settles (reachable: the store answered) with the
\* entry the store holds at that moment; the handler resumes, reads the
\* clock, extends and trims the History and calls kv.put.
KvGetSettle(r, reachable) ==
  /\ pc[r] = "reading"
  /\ LET got == KvGet(kv, reachable)
         upd == updateTrendHistory(got, realtimeResult[r].value.data, clock)
     IN /\ io' = [io EXCEPT ![r].get = IF got.ok THEN "ok" ELSE "failed"]
        /\ now' = [now EXCEPT ![r] = clock]
        /\ IF upd.threw
           THEN /\ pc' = [pc EXCEPT ![r] = "threw"]
                /\ UNCHANGED <<history, pushed, putArg, calls>>
           ELSE /\ pc' = [pc EXCEPT ![r] = "writing"]
                /\ history' = [history EXCEPT ![r] = upd.history]
                /\ pushed' = [pushed EXCEPT ![r] = upd.pushed]
                /\ putArg' = [putArg EXCEPT ![r] = JSONStringify(upd.history)]
                /\ calls' = [calls EXCEPT ![r].put = @ + 1]
  /\ kvSeen' = [kvSeen EXCEPT ![r] = kv]
  /\ UNCHANGED <<env, clock, ticks, started, kv, kvTtl, realtimeResult, historyResult,
                 response>>

\* Lines 149-155, 67-75: kv.put settles (ok: the store took the write); a
\* rejection is caught, the History is returned and the handler answers 200.
KvPutSettle(r, ok) ==
  /\ pc[r] = "writing"
  /\ kv' = KvPut(kv, kvTtl, putArg[r], ok).entry
  /\ kvTtl' = KvPut(kv, kvTtl, putArg[r], ok).ttl
  /\ io' = [io EXCEPT ![r].put = IF ok THEN "ok" ELSE "failed"]
  /\ pc' = [pc EXCEPT ![r] = PutOutcome(ok)]
  /\ IF PutOutcome(ok) = "done"
     THEN response' = [response EXCEPT ![r] =
            jsonResponse(OkBody(realtimeResult[r], historyResult[r], history[r]), 200)]
     ELSE UNCHANGED response
  /\ UNCHANGED <<env, clock, ticks, started, realtimeResult, historyResult, now, history,
                 pushed, calls, putArg, kvSeen>>

\* Time passes.
Tick(d) ==
  /\ ticks < MaxTicks
  /\ ticks' = ticks + 1
  /\ clock' = clock + d
  /\ UNCHANGED <<env, started, kv, kvTtl, pc, realtimeResult, historyResult, now, history,
                 pushed, response, calls, io, putArg, kvSeen>>

\* One invocation at a time, every answer of the upstream.
Next ==
  \/ StartGet(1)
  \/ StartOptions(1)
  \/ \E a \in RealtimeAnswers : SettleRealtime(1, a)
  \/ \E a \in HistoryAnswers : SettleHistory(1, a)
  \/ Join(1)
  \/ \E reachable \in BOOLEAN : KvGetSettle(1, reachable)
  \/ \E ok \in BOOLEAN : KvPutSettle(1, ok)
  \/ \E d \in ClockSteps : Tick(d)

Spec == Init /\ [][Next]_vars

\* Invocations that overlap: every interleaving of their steps.
NextOverlap ==
  \/ \E r \in Requests : StartGet(r)
  \/ \E r \in Requests : StartOptions(r)
  \/ \E r \in Requests, a \in OverlapRealtimeAnswers : SettleRealtime(r, a)
  \/ \E r \in Requests, a \in OverlapHistoryAnswers : SettleHistory(r, a)
  \/ \E r \in Requests : Join(r)
  \/ \E r \in Requests, reachable \in BOOLEAN : KvGetSettle(r, reachable)
  \/ \E r \in Requests, ok \in BOOLEAN : KvPutSettle(r, ok)
  \/ \E d \in ClockSteps : Tick(d)

\* The deployment as documented: the three credentials and the KV binding.
Configured ==
  [ECOWITT_API_KEY |-> "set", ECOWITT_APPLICATION_KEY |-> "set",
   ECOWITT_DEVICE_MAC |-> "set", WEATHER_KV |-> TRUE]

InitOverlap == Init /\ env = Configured

SpecOverlap == InitOverlap /\ [][NextOverlap]_vars

\* One invocation at a time in the deployment as documented, the current
\* reading always answered, with every kind of value the parser meets.
NextReadings ==
  \/ StartGet(1)
  \/ StartOptions(1)
  \/ \E a \in ParserRealtimeAnswers : SettleRealtime(1, a)
  \/ \E a \in OverlapHistoryAnswers : SettleHistory(1, a)
  \/ Join(1)
  \/ \E reachable \in BOOLEAN : KvGetSettle(1, reachable)
  \/ \E ok \in BOOLEAN : KvPutSettle(1, ok)
  \/ \E d \in ClockSteps : Tick(d)

SpecReadings == InitOverlap /\ [][NextReadings]_vars

\* One invocation at a time in three deployments (as documented, without
\* the KV binding, with an empty credential), with the current reading
\* refused, answered by null, by an error code or by a reading, and with
\* every answer of the history fetch; the clock advances by milliseconds.
VersionEnvs ==
  {Configured, [Configured EXCEPT !.WEATHER_KV = FALSE],
   [Configured EXCEPT !.ECOWITT_DEVICE_MAC = "empty"]}

VersionRealtimeAnswers ==
  {Answer(TRUE, 503, "none", FALSE, 0, "", ReadingNone),
   Answer(TRUE, 200, "null", FALSE, 0, "", ReadingNone),
   Answer(TRUE, 200, "object", TRUE, 40010, "Illegal parameter", ReadingNone),
   Answer(TRUE, 200, "object", TRUE, 0, "success", ReadingFull),
   Answer(TRUE, 200, "object", TRUE, 0, "success", ReadingNoTemp)}

NextVersions ==
  \/ StartGet(1)
  \/ StartOptions(1)
  \/ \E a \in VersionRealtimeAnswers : SettleRealtime(1, a)
  \/ \E a \in HistoryAnswers : SettleHistory(1, a)
  \/ Join(1)
  \/ \E reachable \in BOOLEAN : KvGetSettle(1, reachable)
  \/ \E ok \in BOOLEAN : KvPutSettle(1, ok)
  \/ Tick(1)

InitVersions == Init /\ env \in VersionEnvs

SpecVersions == InitVersions /\ [][NextVersions]_vars

\* ------------------------------------------------- one request, start to end
\* Lines 26-76 for one invocation that runs alone: the outcome (a response or
\* an exception) and the entry of the store afterwards, from the bindings,
\* the answers of the two fetches, the entry of the store, the outcomes of
\* kv.get and kv.put and the clock read by updateTrendHistory.
onRequestGet(e, realtimeAnswer, historyAnswer, entry, reachable, ok, t) ==
  LET realtime == fetchEcowitt(realtimeAnswer)
      hist == fetchEcowitt(historyAnswer)
      upd == updateTrendHistory(KvGet(entry, reachable), realtime.value.data, t)
  IN IF MissingCredentials(e)
     THEN [threw |-> FALSE, kv |-> entry,
           response |-> jsonResponse(
             ErrorBody("Server misconfiguration: missing environment variables."), 500)]
     ELSE IF JoinThrows(realtime)
     THEN [threw |-> TRUE, kv |-> entry, response |-> NoResponse]
     ELSE IF RealtimeFailure(realtime) # ""
     THEN [threw |-> FALSE, kv |-> entry,
           response |-> jsonResponse(ErrorBody(RealtimeFailure(realtime)), 502)]
     ELSE IF ~KvConfigured(e)
     THEN [threw |-> FALSE, kv |-> entry,
           response |-> jsonResponse(OkBody(realtime, hist, EmptyHistory), 200)]
     ELSE IF upd.threw
     THEN [threw |-> TRUE, kv |-> entry, response |-> NoResponse]
     ELSE [threw |-> FALSE,
           kv |-> KvPut(entry, 0, JSONStringify(upd.history), ok).entry,
           response |-> jsonResponse(OkBody(realtime, hist, upd.history), 200)]

\* ------------------------------------------ the version src/unnamed/part_000
\* historyData taken from a fulfilled fetch with any code.
HistoryData_part000_AnyCode(settled) ==
  IF settled.status = "fulfilled" /\ settled.value.json = "object"
  THEN settled.value.data
  ELSE "null"

\* part_000 lines 51-53: historyData as one conditional expression.
HistoryData_part000(settled) ==
  IF /\ settled.status = "fulfilled"
     /\ settled.value.json = "object"
     /\ settled.value.hasCode
     /\ settled.value.code = 0
  THEN settled.value.data
  ELSE "null"

\* part_000 lines 29-64: the bodies; the 200 body has no history_error.
Body_part000(error, realtime, hist, trends) ==
  [error |-> error, realtime |-> realtime, history |-> hist, trends |-> trends]

\* part_000 lines 149-151.
jsonResponse_part000(data, status) ==
  [status |-> status,
   headers |-> [allowOrigin |-> "*", allowMethods |-> "GET, OPTIONS",
                contentType |-> "application/json"],
   body |-> data]

NoResponse_part000 ==
  jsonResponse_part000(Body_part000("", ReadingNone, "null", EmptyHistory), 0)

\* part_000 lines 95-123: read, push, trim.
updateTrendHistory_part000(got, realtimeData, t) ==
  LET stored == got.value
      usable ==
        got.ok /\ ~stored.isNull /\ stored.pressure.kind \in {"array", "truthy"}
          /\ stored.temperature.kind \in {"array", "truthy"}
      read == IF usable THEN stored ELSE History(ArrayField(<<>>), ArrayField(<<>>))
      cutoff == t - 48 * 3600 * 1000
      rawPressure == parseEcowittValue(realtimeData.pressure_relative)
      rawTemp == parseEcowittValue(realtimeData.outdoor_temperature)
      Young(s) == s.time > cutoff
      p == IF rawPressure.null THEN read.pressure.items
           ELSE Append(read.pressure.items, Sample(t, rawPressure.n * 338639))
      c == IF rawTemp.null THEN read.temperature.items
           ELSE Append(read.temperature.items, Sample(t, (rawTemp.n - 3200) * 5))
  IN IF read.pressure.kind # "array" \/ read.temperature.kind # "array"
     THEN [threw |-> TRUE, history |-> EmptyHistory]
     ELSE [threw |-> FALSE,
           history |-> History(ArrayField(SelectSeq(p, Young)), ArrayField(SelectSeq(c, Young)))]

\* part_000 lines 26-66 for one invocation that runs alone.
onRequestGet_part000(e, realtimeAnswer, historyAnswer, entry, reachable, ok, t) ==
  LET realtime == fetchEcowitt(realtimeAnswer)
      hist == fetchEcowitt(historyAnswer)
      realtimeData == realtime.value
      upd == updateTrendHistory_part000(KvGet(entry, reachable), realtimeData.data, t)
      Error500 == "Server misconfiguration: missing environment variables."
  IN IF \/ e.ECOWITT_API_KEY \in {"unset", "empty"}
        \/ e.ECOWITT_APPLICATION_KEY \in {"unset", "empty"}
        \/ e.ECOWITT_DEVICE_MAC \in {"unset", "empty"}
     THEN [threw |-> FALSE, kv |-> entry,
           response |-> jsonResponse_part000(
             Body_part000(Error500, ReadingNone, "null", EmptyHistory), 500)]
     ELSE IF realtime.status = "rejected"
     THEN [threw |-> FALSE, kv |-> entry,
           response |-> jsonResponse_part000(
             Body_part000("Failed to reach Ecowitt API: " \o realtime.reason.name \o ": "
                            \o realtime.reason.message,
                          ReadingNone, "null", EmptyHistory), 502)]
     ELSE IF realtimeData.json = "null"
     THEN [threw |-> TRUE, kv |-> entry, response |-> NoResponse_part000]
     ELSE IF ~(realtimeData.hasCode /\ realtimeData.code = 0)
     THEN [threw |-> FALSE, kv |-> entry,
           response |-> jsonResponse_part000(
             Body_part000(IF realtimeData.msg # "" THEN realtimeData.msg
                          ELSE "Ecowitt API returned an error.",
                          ReadingNone, "null", EmptyHistory), 502)]
     ELSE IF ~e.WEATHER_KV
     THEN [threw |-> FALSE, kv |-> entry,
           response |-> jsonResponse_part000(
             Body_part000("", realtimeData.data, HistoryData_part000(hist), EmptyHistory),
             200)]
     ELSE IF upd.threw
     THEN [threw |-> TRUE, kv |-> entry, response |-> NoResponse_part000]
     ELSE [threw |-> FALSE,
           kv |-> IF ok THEN JSONStringify(upd.history) ELSE entry,
           response |-> jsonResponse_part000(
             Body_part000("", realtimeData.data, HistoryData_part000(hist), upd.history),
             200)]

\* ------------------------------------------------------- buildHistoryUrl
\* The civil date of a day number (days since 1970-01-01), as
\* Intl.DateTimeFormat computes it in the proleptic Gregorian calendar.
CivilFromDays(days) ==
  LET z == days + 719468
      era == z \div 146097
      doe == z - era * 146097
      yoe == (doe - doe \div 1460 + doe \div 36524 - doe \div 146096) \div 365
      doy == doe - (365 * yoe + yoe \div 4 - yoe \div 100)
      mp == (5 * doy + 2) \div 153
      d == doy - (153 * mp + 2) \div 5 + 1
      m == IF mp < 10 THEN mp + 3 ELSE mp - 9
      y == yoe + era * 400 + (IF m <= 2 THEN 1 ELSE 0)
  IN <<y, m, d>>

\* Lines 92-95: date.toLocaleString('sv-SE', {timeZone:
\* 'Africa/Johannesburg'}), the text "YYYY-MM-DD HH:MM:SS" in UTC+2, given as
\* its six numbers; the milliseconds are dropped.
toEcowittDate(ms) ==
  LET secs == (ms + 2 * 3600 * 1000) \div 1000
      sod == secs % 86400
  IN CivilFromDays(secs \div 86400) \o <<sod \div 3600, (sod % 3600) \div 60, sod % 60>>

\* Lines 91-104: the start_date and end_date of the history request.
buildHistoryUrl(t) ==
  [start_date |-> toEcowittDate(t - 24 * 3600 * 1000), end_date |-> toEcowittDate(t)]

\* part_000 lines 77-81: both dates in epoch seconds.
buildHistoryUrl_part000(t) ==
  LET endTime == t \div 1000
      startTime == endTime - 24 * 3600
  IN [start_date |-> startTime, end_date |-> endTime]

\* ------------------------------------------------- vocabulary of the claims
Range(seq) == {seq[i] : i \in 1..Len(seq)}

Finished(r) == pc[r] \in {"done", "threw"}

AnyCredentialAbsent ==
  \/ env.ECOWITT_API_KEY \in {"unset", "empty"}
  \/ env.ECOWITT_APPLICATION_KEY \in {"unset", "empty"}
  \/ env.ECOWITT_DEVICE_MAC \in {"unset", "empty"}

\* The current-reading call succeeded: a JSON object with code 0.
RealtimeOk(r) ==
  /\ realtimeResult[r].status = "fulfilled"
  /\ realtimeResult[r].value.json = "object"
  /\ realtimeResult[r].value.hasCode
  /\ realtimeResult[r].value.code = 0

\* It failed: at transport level, or with a body whose code is not 0.
RealtimeFailed(r) ==
  \/ realtimeResult[r].status = "rejected"
  \/ /\ realtimeResult[r].status = "fulfilled"
     /\ realtimeResult[r].value.json = "object"
     /\ ~(realtimeResult[r].value.hasCode /\ realtimeResult[r].value.code = 0)

HistoryOk(r) ==
  /\ historyResult[r].status = "fulfilled"
  /\ historyResult[r].value.json = "object"
  /\ historyResult[r].value.hasCode
  /\ historyResult[r].value.code = 0

HistoryFailed(r) == Settled(historyResult[r]) /\ ~HistoryOk(r)

Trends(r) == response[r].body.trends

\* The stored entry is a History: an object whose two fields are arrays.
WellShaped(entry) ==
  entry.shape = "object" /\ entry.pressure.kind = "array" /\ entry.temperature.kind = "array"

\* The samples of a stored entry, per metric.
StoredPressure(entry) == {Sample(x[1], x[2]) : x \in Range(entry.pressure.items)}
StoredTemperature(entry) == {Sample(x[1], x[2]) : x \in Range(entry.temperature.items)}

\* C1: with a credential absent or empty every GET ends in 500 with an error
\* body; no fetch is issued, kv.get and kv.put are never called and the
\* store keeps its entry.
C1_MissingCredentials ==
  AnyCredentialAbsent =>
    \A r \in Requests :
      /\ pc[r] \in {"idle", "done", "preflight"}
      /\ calls[r] = NoCalls
      /\ ~Settled(realtimeResult[r]) /\ ~Settled(historyResult[r])
      /\ kv = kvSeen[r]
      /\ pc[r] = "done" => response[r].status = 500 /\ response[r].body.error # ""

C1_Witness ==
  /\ pc[1] = "done"
  /\ response[1].status = 500
  /\ env.ECOWITT_API_KEY = "set"
  /\ env.ECOWITT_APPLICATION_KEY = "set"
  /\ env.ECOWITT_DEVICE_MAC = "empty"
  /\ env.WEATHER_KV

\* C2: when the current-reading fetch is rejected or its body carries a code
\* other than 0, the handler answers 502, never calls kv.get or kv.put and
\* the stored History is the one the request found, whatever the history
\* fetch did.
C2_RealtimeFailure502 ==
  \A r \in Requests :
    RealtimeFailed(r) =>
      /\ pc[r] \in {"fetching", "done"}
      /\ calls[r].get = 0 /\ calls[r].put = 0
      /\ io[r] = NoIo
      /\ kv = kvSeen[r]
      /\ pc[r] = "done" => response[r].status = 502 /\ response[r].body.error # ""

C2_Witness ==
  /\ pc[1] = "done"
  /\ response[1].status = 502
  /\ realtimeResult[1].status = "rejected"
  /\ realtimeResult[1].value.status = 503
  /\ HistoryOk(1)
  /\ env.WEATHER_KV
  /\ WellShaped(kv)

\* The sample the call appends for a metric, from the parsed reading.
NewPressure(r) ==
  Sample(now[r],
         inHgToHPa(parseEcowittValue(realtimeResult[r].value.data.pressure_relative).n))
NewTemperature(r) ==
  Sample(now[r],
         fToC(parseEcowittValue(realtimeResult[r].value.data.outdoor_temperature).n))

HasPressure(r) == ~parseEcowittValue(realtimeResult[r].value.data.pressure_relative).null
HasTemperature(r) == ~parseEcowittValue(realtimeResult[r].value.data.outdoor_temperature).null

\* The trends of the response hold a sample taken at the call's now.
IncludesNewSample(r) ==
  \E s \in Range(Trends(r).pressure.items) \cup Range(Trends(r).temperature.items) :
    s.time = now[r]

EndsWith(items, s) == items # <<>> /\ items[Len(items)] = s

C4_Original ==
  (~env.WEATHER_KV /\ ~AnyCredentialAbsent) =>
    \A r \in Requests :
      pc[r] = "done" =>
        /\ response[r].status = 200
        /\ Trends(r) = EmptyHistory
        /\ calls[r].get = 0 /\ calls[r].put = 0

\* C4 amended: without the KV binding (credentials present)
\* updateTrendHistory is never called and the store is never touched; the
\* handler answers 200 with trends {pressure: [], temperature: []} whenever
\* the current reading succeeds with code 0, whatever the history fetch did,
\* and 502 when the current reading fails.
C4_NoBindingEmptyTrends ==
  (~env.WEATHER_KV /\ ~AnyCredentialAbsent) =>
    \A r \in Requests :
      /\ pc[r] \notin {"reading", "writing"}
      /\ calls[r].get = 0 /\ calls[r].put = 0
      /\ io[r] = NoIo
      /\ kv = kvSeen[r]
      /\ (pc[r] = "done" /\ RealtimeOk(r)) =>
           response[r].status = 200 /\ Trends(r) = EmptyHistory
      /\ (pc[r] = "done" /\ RealtimeFailed(r)) => response[r].status = 502
      /\ pc[r] = "threw" => realtimeResult[r].value.json = "null"

C4_Witness ==
  /\ ~env.WEATHER_KV
  /\ pc[1] = "done"
  /\ response[1].status = 200
  /\ Trends(1) = EmptyHistory
  /\ HistoryFailed(1)
  /\ realtimeResult[1].value.data = ReadingFull
  /\ WellShaped(kv)
  /\ kv.pressure.items # <<>>

\* Every sample of a History, or of the text handed to kv.put, is younger
\* than 48 hours at time t.
AllYounger(h, t) ==
  \A s \in Range(h.pressure.items) \cup Range(h.temperature.items) :
    s.time > t - 48 * 3600 * 1000

AllYoungerText(entry, t) ==
  \A s \in StoredPressure(entry) \cup StoredTemperature(entry) : s.time > t - 48 * 3600 * 1000

\* C5: rolling window: every sample of the History a call of
\* updateTrendHistory returns, and of the History it hands to kv.put, has
\* time > now - 48 h for that call's now, whatever the stored entry was and
\* however the calls overlap.
C5_RollingWindow ==
  \A r \in Requests :
    /\ pc[r] = "writing" => AllYounger(history[r], now[r]) /\ AllYoungerText(putArg[r], now[r])
    /\ (pc[r] = "done" /\ calls[r].put = 1) =>
         /\ AllYounger(Trends(r), now[r])
         /\ AllYoungerText(putArg[r], now[r])
         /\ io[r].put = "ok" => putArg[r] = JSONStringify(Trends(r))

\* Two calls read the same stored History, which holds a sample on the
\* cutoff and one inside the window; the first has returned the trimmed
\* History while the second is still writing.
C5_Witness ==
  /\ pc[1] = "done" /\ pc[2] = "writing"
  /\ kvSeen[1] = ObjectEntry(ArrayField(InitSamplesP), ArrayField(InitSamplesT))
  /\ kvSeen[2] = kvSeen[1]
  /\ now[1] = Clock0 /\ now[2] = Clock0 + 1
  /\ Len(Trends(1).pressure.items) = 2
  /\ Len(history[2].pressure.items) = 1

\* C6: strict boundary: of the samples read from the store, one with time
\* exactly now - 48 h is removed by the update and one with time
\* now - 48 h + 1 ms is kept, for both metrics.
C6_StrictBoundary ==
  \A r \in Requests :
    (pc[r] \in {"writing", "done"} /\ calls[r].put = 1 /\ io[r].get = "ok"
       /\ WellShaped(kvSeen[r])) =>
      /\ \A s \in StoredPressure(kvSeen[r]) :
           /\ s.time = now[r] - 48 * 3600 * 1000 => s \notin Range(history[r].pressure.items)
           /\ s.time = now[r] - 48 * 3600 * 1000 + 1 => s \in Range(history[r].pressure.items)
      /\ \A s \in StoredTemperature(kvSeen[r]) :
           /\ s.time = now[r] - 48 * 3600 * 1000
                => s \notin Range(history[r].temperature.items)
           /\ s.time = now[r] - 48 * 3600 * 1000 + 1
                => s \in Range(history[r].temperature.items)

\* The store held a pressure sample exactly on the cutoff of the call and
\* one a millisecond younger: the response has the second and not the first.
C6_Witness ==
  /\ pc[1] = "done"
  /\ response[1].status = 200
  /\ io[1].get = "ok"
  /\ \E s1, s2 \in StoredPressure(kvSeen[1]) :
       /\ s1.time = now[1] - 48 * 3600 * 1000
       /\ s2.time = now[1] - 48 * 3600 * 1000 + 1
       /\ s1 \notin Range(Trends(1).pressure.items)
       /\ s2 \in Range(Trends(1).pressure.items)

\* The History a call makes of an empty store: the new samples alone.
FreshHistory(r) ==
  History(ArrayField(IF HasPressure(r) THEN <<NewPressure(r)>> ELSE <<>>),
          ArrayField(IF HasTemperature(r) THEN <<NewTemperature(r)>> ELSE <<>>))

\* The stored value cannot be used as a History: the read is rejected (store
\* unreachable, text that is no JSON), or the value is null or an object
\* without two arrays.
Unusable(r) == io[r].get = "failed" \/ (kvSeen[r].shape # "absent" /\ ~WellShaped(kvSeen[r]))

\* C7: on every unreadable, corrupt or partly shaped stored value
\* updateTrendHistory goes on as if the history were empty, appends the
\* current sample and returns normally.
C7_CorruptValueIsReset ==
  \A r \in Requests :
    (calls[r].get = 1 /\ pc[r] # "reading" /\ Unusable(r)) =>
      /\ pc[r] \in {"writing", "done"}
      /\ history[r] = FreshHistory(r)

\* The prior contents as read, trimmed for the call's now.
Kept(r, stored) ==
  LET Keep(s) == s.time > now[r] - 48 * 3600 * 1000
  IN SelectSeq(stored, Keep)

PriorPressure(r) ==
  IF io[r].get = "ok" /\ WellShaped(kvSeen[r])
  THEN [i \in 1..Len(kvSeen[r].pressure.items) |->
          Sample(kvSeen[r].pressure.items[i][1], kvSeen[r].pressure.items[i][2])]
  ELSE <<>>

PriorTemperature(r) ==
  IF io[r].get = "ok" /\ WellShaped(kvSeen[r])
  THEN [i \in 1..Len(kvSeen[r].temperature.items) |->
          Sample(kvSeen[r].temperature.items[i][1], kvSeen[r].temperature.items[i][2])]
  ELSE <<>>

\* C8: a rejected kv.get or kv.put is never surfaced: the request ends in
\* 200, its trends is the History in memory (prior contents as read, plus
\* the new sample, trimmed), and after a rejected kv.put the store holds the
\* entry the request found.
C8_PersistenceFailuresSwallowed ==
  \A r \in Requests :
    (io[r].get = "failed" \/ io[r].put = "failed") =>
      /\ pc[r] \in {"writing", "done"}
      /\ pc[r] = "done" =>
           /\ response[r].status = 200
           /\ Trends(r).pressure.items =
                Kept(r, PriorPressure(r)) \o (IF HasPressure(r) THEN <<NewPressure(r)>> ELSE <<>>)
           /\ Trends(r).temperature.items =
                Kept(r, PriorTemperature(r))
                  \o (IF HasTemperature(r) THEN <<NewTemperature(r)>> ELSE <<>>)
           /\ io[r].put = "failed" => kv = kvSeen[r]

C8_Witness ==
  /\ pc[1] = "done"
  /\ io[1] = [get |-> "ok", put |-> "failed"]
  /\ response[1].status = 200
  /\ kv = ObjectEntry(ArrayField(InitSamplesP), ArrayField(InitSamplesT))
  /\ now[1] = Clock0
  /\ Len(Trends(1).pressure.items) = 2
  /\ Len(Trends(1).temperature.items) = 2

\* C9: settle-all join: the two fetches are issued together, and the handler
\* sends a response (200 or 502), throws or calls the store only once both
\* have settled, in whichever order and with whichever outcomes.
C9_SettleAllJoin ==
  \A r \in Requests :
    /\ calls[r].realtime = calls[r].history
    /\ pc[r] = "fetching" => calls[r].realtime = 1 /\ response[r].status = 0
    /\ (Settled(realtimeResult[r]) \/ Settled(historyResult[r])) =>
         calls[r].realtime = 1 /\ calls[r].history = 1
    /\ (response[r].status \in {200, 502} \/ calls[r].get > 0 \/ calls[r].put > 0
          \/ pc[r] \in {"reading", "writing", "threw"}) =>
         Settled(realtimeResult[r]) /\ Settled(historyResult[r])

\* The current reading has been refused while the history fetch is still
\* pending: the handler has sent nothing.
C9_Witness ==
  /\ pc[1] = "fetching"
  /\ realtimeResult[1].status = "rejected"
  /\ historyResult[1].status = "pending"
  /\ response[1].status = 0
  /\ calls[1] = [realtime |-> 1, history |-> 1, get |-> 0, put |-> 0]

\* A kv.put of r settles in this step.
PutSettles(r) == pc[r] = "writing" /\ pc'[r] # "writing"

\* No write came between the kv.get of r and its kv.put: r does not overlap
\* another read-modify-write.
NotOverlapped(r) == kvSeen[r] = kv

\* The samples of the stored entry that are inside the window now.
InWindowNow(entry) ==
  [pressure |-> {s \in StoredPressure(entry) : s.time > clock - 48 * 3600 * 1000},
   temperature |-> {s \in StoredTemperature(entry) : s.time > clock - 48 * 3600 * 1000}]

\* C10 as stated, second half: when requests do not overlap, no sample
\* inside the window is lost: what the store held stays, and the sample the
\* request returned is stored.
C10_Original ==
  [][\A r \in Requests :
       (PutSettles(r) /\ NotOverlapped(r) /\ WellShaped(kv)) =>
         /\ InWindowNow(kv).pressure \subseteq StoredPressure(kv')
         /\ InWindowNow(kv).temperature \subseteq StoredTemperature(kv')
         /\ HasPressure(r) => NewPressure(r) \in StoredPressure(kv')
         /\ HasTemperature(r) => NewTemperature(r) \in StoredTemperature(kv')]_vars

\* C10 amended: the last writer wins: a kv.put the store takes replaces the
\* entry by exactly the History that request returns, and a rejected one
\* leaves the entry alone; so two requests that both read before either
\* writes leave only the later writer's sample (C10_Witness).  When no write
\* came between a request's read and its write, and both its kv.get and its
\* kv.put succeeded on a well-formed History, every stored sample inside the
\* window is still stored afterwards, and so is the new sample of each
\* metric whose reading parses to a number.
C10_LastWriterWins ==
  [][\A r \in Requests :
       PutSettles(r) =>
         /\ io'[r].put = "ok" => kv' = JSONStringify(Trends(r)') /\ pc'[r] = "done"
         /\ io'[r].put = "failed" => kv' = kv
         /\ (io'[r].put = "ok" /\ io[r].get = "ok" /\ NotOverlapped(r) /\ WellShaped(kv)) =>
              /\ InWindowNow(kv).pressure \subseteq StoredPressure(kv')
              /\ InWindowNow(kv).temperature \subseteq StoredTemperature(kv')
              /\ HasPressure(r) => NewPressure(r) \in StoredPressure(kv')
              /\ HasTemperature(r) => NewTemperature(r) \in StoredTemperature(kv')]_vars

\* Lost update: both requests read the same entry before either wrote, both
\* writes were taken and both answered 200 with their own sample in trends;
\* the store holds the sample of the second writer and not that of the
\* first.
C10_Witness ==
  /\ pc[1] = "done" /\ pc[2] = "done"
  /\ response[1].status = 200 /\ response[2].status = 200
  /\ io[1] = [get |-> "ok", put |-> "ok"]
  /\ io[2] = [get |-> "ok", put |-> "ok"]
  /\ kvSeen[1] = kvSeen[2]
  /\ now[1] # now[2]
  /\ NewPressure(1) \in Range(Trends(1).pressure.items)
  /\ NewPressure(2) \in Range(Trends(2).pressure.items)
  /\ kv = JSONStringify(Trends(2))
  /\ NewPressure(2) \in StoredPressure(kv)
  /\ NewPressure(1) \notin StoredPressure(kv)
  /\ now[1] > clock - 48 * 3600 * 1000

\* C11: no retry: within one request each of the two fetches is issued at
\* most once and kv.get and kv.put are called at most once; once a fetch has
\* settled the request never waits for it again, and once kv.get or kv.put
\* has settled (taken or rejected) the request never waits for that
\* operation again.
C11_NoRetry ==
  \A r \in Requests :
    /\ calls[r].realtime <= 1 /\ calls[r].history <= 1
    /\ calls[r].get <= 1 /\ calls[r].put <= 1
    /\ calls[r].put <= calls[r].get
    /\ (Settled(realtimeResult[r]) /\ Settled(historyResult[r]) /\ pc[r] = "fetching") =>
         calls[r] = [realtime |-> 1, history |-> 1, get |-> 0, put |-> 0]
    /\ io[r].get # "none" => pc[r] # "reading" /\ calls[r].get = 1
    /\ io[r].put # "none" => pc[r] \notin {"reading", "writing"} /\ calls[r].put = 1
    /\ (pc[r] = "done" /\ realtimeResult[r].status = "rejected") =>
         calls[r] = [realtime |-> 1, history |-> 1, get |-> 0, put |-> 0]

\* The history fetch, kv.get and kv.put all failed: the request has answered
\* 200 after one attempt of each.
C11_Witness ==
  /\ pc[1] = "done"
  /\ response[1].status = 200
  /\ historyResult[1].status = "rejected"
  /\ io[1] = [get |-> "failed", put |-> "failed"]
  /\ calls[1] = [realtime |-> 1, history |-> 1, get |-> 1, put |-> 1]

\* C12: every GET whose fetches and store operations have settled has ended
\* with a response of status 200, 500 or 502; no failure leaves the handler
\* as an exception.
C12_EveryFailureConverted ==
  \A r \in Requests :
    /\ pc[r] # "threw"
    /\ pc[r] = "done" => response[r].status \in {200, 500, 502}

Ordered(items) == \A i, j \in 1..Len(items) : i < j => items[i].time <= items[j].time

OrderedText(items) == \A i, j \in 1..Len(items) : i < j => items[i][1] <= items[j][1]

\* C13: chronological order: the pressure and the temperature sequence of
\* the stored History, of every History handed to kv.put and of every
\* History returned are ordered by non-decreasing time, after any sequence
\* and interleaving of requests.
C13_ChronologicalOrder ==
  /\ OrderedText(kv.pressure.items) /\ OrderedText(kv.temperature.items)
  /\ \A r \in Requests :
       /\ Ordered(pushed[r].pressure.items) /\ Ordered(pushed[r].temperature.items)
       /\ Ordered(history[r].pressure.items) /\ Ordered(history[r].temperature.items)
       /\ OrderedText(putArg[r].pressure.items) /\ OrderedText(putArg[r].temperature.items)
       /\ Ordered(Trends(r).pressure.items) /\ Ordered(Trends(r).temperature.items)

\* Two requests one millisecond apart, the second reading what the first
\* wrote: the store holds the sample of the first before that of the second.
C13_Witness ==
  /\ started = 2
  /\ WellShaped(kv)
  /\ Len(kv.pressure.items) = 2
  /\ kv.pressure.items[1][1] = Clock0
  /\ kv.pressure.items[2][1] = Clock0 + 1
  /\ \E r \in Requests : pc[r] = "done" /\ kv = JSONStringify(Trends(r)) /\ now[r] = Clock0 + 1

\* What the claim expects a call to append for each reading: the converted
\* value when the value object holds a number ("29.92", "32", "30", "0",
\* "30.1in", "-4.5"), nothing when the node or its value is missing or the
\* value is "" or "n/a".
ExpectedPressure(d) ==
  CASE d = ReadingFull -> <<2992 * 338639>>
    [] d = ReadingNoTemp -> <<3000 * 338639>>
    [] d = ReadingNone -> <<>>
    [] d = ReadingZero -> <<0>>
    [] d = ReadingPrefix -> <<3010 * 338639>>

ExpectedTemperature(d) ==
  CASE d = ReadingFull -> <<0>>
    [] d = ReadingNoTemp -> <<>>
    [] d = ReadingNone -> <<>>
    [] d = ReadingZero -> <<>>
    [] d = ReadingPrefix -> <<(0 - 450 - 3200) * 5>>

SamplesAt(t, values) == [i \in 1..Len(values) |-> Sample(t, values[i])]

\* C14: every call of updateTrendHistory that has gone past its read has,
\* before the trim, each sequence equal to the stored sequence (empty when
\* the stored value was not usable) followed by exactly one sample
\* {time: now, value: converted reading} when the parser yields a number for
\* that metric, and by nothing when it yields null.
C14_OneSamplePerParsedMetric ==
  \A r \in Requests :
    (calls[r].get = 1 /\ pc[r] # "reading") =>
      LET d == realtimeResult[r].value.data
      IN /\ pushed[r].pressure.items =
              PriorPressure(r) \o SamplesAt(now[r], ExpectedPressure(d))
         /\ pushed[r].temperature.items =
              PriorTemperature(r) \o SamplesAt(now[r], ExpectedTemperature(d))

\* C15: every call of updateTrendHistory that has gone past its read has
\* called kv.put exactly once, with the text of exactly the History it
\* returns, and a write the store took leaves the entry with an expiry of
\* 49 hours, also when nothing was appended or the History is empty.
C15_WriteEveryCall ==
  \A r \in Requests :
    (calls[r].get = 1 /\ pc[r] # "reading") =>
      /\ calls[r].put = 1
      /\ putArg[r] = JSONStringify(history[r])
      /\ pc[r] = "done" =>
           /\ putArg[r] = JSONStringify(Trends(r))
           /\ io[r].put = "ok" => kvTtl = 49 * 3600

\* C16: every response of the GET handler (200, 500, 502) and of the OPTIONS
\* handler carries Access-Control-Allow-Origin: *, Access-Control-Allow-
\* Methods: GET, OPTIONS and the JSON content type; OPTIONS answers 204 with
\* an empty body, issues no fetch, calls neither kv.get nor kv.put and leaves
\* the store as it was, whatever the configuration.
C16_CorsOnEveryResponse ==
  \A r \in Requests :
    /\ response[r].status \in {0, 200, 204, 500, 502}
    /\ response[r].status # 0 =>
         /\ response[r].headers.allowOrigin = "*"
         /\ response[r].headers.allowMethods = "GET, OPTIONS"
         /\ response[r].headers.contentType = "application/json"
    /\ pc[r] = "done" => response[r].status \in {200, 500, 502}
    /\ pc[r] = "preflight" =>
         /\ response[r].status = 204
         /\ response[r].body = NoBody
         /\ calls[r] = NoCalls /\ io[r] = NoIo
         /\ ~Settled(realtimeResult[r]) /\ ~Settled(historyResult[r])
         /\ kv = kvSeen[r]
    /\ response[r].status = 204 => pc[r] = "preflight"

\* A preflight answered in a deployment without credentials, after an
\* earlier request.
C16_Witness ==
  /\ pc[1] = "preflight"
  /\ response[1] = [status |-> 204, headers |-> CORS_HEADERS, body |-> NoBody]
  /\ env.ECOWITT_API_KEY = "unset"
  /\ env.WEATHER_KV
  /\ started = 2
  /\ WellShaped(kv)

\* The request r as it would have run with the history fetch answered by ha
\* and everything else as it was.
Rerun(r, ha) ==
  onRequestGet(env, realtimeResult[r].value, ha, kvSeen[r], io[r].get # "failed",
               io[r].put # "failed", now[r])

\* C17: the history fetch does not influence trend maintenance: a finished
\* request and its rerun under any other outcome of the history fetch (same
\* credentials, current reading, clock, stored History and store outcomes)
\* agree on whether a response is sent, on its status, error, realtime and
\* trends fields and on the stored History afterwards.
C17_HistoryFetchNoInfluence ==
  \A r \in Requests :
    Finished(r) =>
      \A ha \in HistoryAnswers :
        LET rerun == Rerun(r, ha)
        IN /\ rerun.threw = (pc[r] = "threw")
           /\ rerun.kv = kv
           /\ pc[r] = "done" =>
                /\ rerun.response.status = response[r].status
                /\ rerun.response.body.error = response[r].body.error
                /\ rerun.response.body.realtime = response[r].body.realtime
                /\ rerun.response.body.trends = Trends(r)
           /\ ha = historyResult[r].value => rerun.response = response[r]

\* The history fetch was rejected and the request answered 200 with history
\* null, wrote its History and returned it; with the history fetch answered
\* the response has the history data and the same trends.
C17_Witness ==
  /\ pc[1] = "done"
  /\ response[1].status = 200
  /\ historyResult[1].status = "rejected"
  /\ response[1].body.history = "null"
  /\ io[1] = [get |-> "ok", put |-> "ok"]
  /\ Trends(1).pressure.items # <<>>
  /\ kv = JSONStringify(Trends(1))
  /\ \E ha \in HistoryAnswers :
       /\ Rerun(1, ha).response.body.history = "history24h"
       /\ Rerun(1, ha).response.body.history_error = "null"
       /\ Rerun(1, ha).response.body.trends = Trends(1)

\* The request r as part_000 would have run it.
Older(r) ==
  onRequestGet_part000(env, realtimeResult[r].value, historyResult[r].value, kvSeen[r],
                       io[r].get # "failed", io[r].put # "failed", now[r])

\* C18: the two versions are equivalent on observable behaviour: for the
\* credentials, upstream outcomes, clock, stored History and store outcomes
\* of every finished request, part_000 sends a response exactly when
\* weather.js does, with the same status, headers, error, realtime, history
\* and trends, and leaves the same stored History.  weather.js adds
\* history_error, null exactly when the history fetch was fulfilled with
\* code 0; and the history request of weather.js carries the local dates
\* (UTC+2, to the second) of the epoch seconds part_000 sends.
C18_VersionsEquivalent ==
  /\ \A r \in Requests :
       Finished(r) =>
         LET older == Older(r)
         IN /\ older.threw = (pc[r] = "threw")
            /\ older.kv = kv
            /\ pc[r] = "done" =>
                 /\ older.response.status = response[r].status
                 /\ older.response.headers = response[r].headers
                 /\ older.response.body.error = response[r].body.error
                 /\ older.response.body.realtime = response[r].body.realtime
                 /\ older.response.body.history = response[r].body.history
                 /\ older.response.body.trends = Trends(r)
                 /\ response[r].status = 200 =>
                      (response[r].body.history_error = "null" <=> HistoryOk(r))
  /\ buildHistoryUrl_part000(clock).end_date \in Int
  /\ Len(buildHistoryUrl(clock).end_date) = 6
  /\ toEcowittDate(buildHistoryUrl_part000(clock).end_date * 1000)
       = buildHistoryUrl(clock).end_date
  /\ toEcowittDate(buildHistoryUrl_part000(clock).start_date * 1000)
       = buildHistoryUrl(clock).start_date

\* A request that answered 200 with history data and a trimmed, extended
\* History, at a clock that is no whole second: both versions agree, and the
\* history_error of weather.js is null.
C18_Witness ==
  /\ pc[1] = "done"
  /\ response[1].status = 200
  /\ HistoryOk(1)
  /\ response[1].body.history_error = "null"
  /\ Older(1).response.body.history = "history24h"
  /\ io[1] = [get |-> "ok", put |-> "ok"]
  /\ Len(Trends(1).pressure.items) = 2
  /\ Older(1).kv = kv
  /\ clock % 1000 # 0
  /\ buildHistoryUrl(clock).end_date = <<1970, 1, 5, 2, 0, 0>>
  /\ buildHistoryUrl_part000(clock).end_date = 345600

====
